---- MODULE Spec2Model ----
(***************************************************************************)
(* Post lifecycle and moderation state machine of the marketplace backend  *)
(* (Project/backend/posts).  The stored Post rows, the three gateways      *)
(* (public feed, owner listings, moderation) and Post.save are modelled    *)
(* from posts/models.py, posts/views.py and posts/serializers.py.          *)
(*                                                                         *)
(* Each request handler is one atomic action.  A request answered with an *)
(* error writes nothing and is a stuttering step; the answer a request     *)
(* would get is the value of its _response operator.  A timestamp is a     *)
(* positive integer (days); NULL (0) is the null timestamp.                *)
(***************************************************************************)
EXTENDS Integers, FiniteSets, Sequences, Bags, TLC

\* ---------------------------------------------------------------- bounds
\* MaxPosts: rows the table can hold.  MaxTicks: clock advances, each of
\* MIN_EXPIRY_DAYS days.  MaxWrites: requests that write, counted from the
\* initial table, when every gateway is open (Spec).  MaxOwnerWrites: the
\* same when only the owner gateway is used (SpecOwner).  MaxRequests:
\* requests made, in flight or answered, when a request reads its post and
\* writes it in two steps (SpecConcurrent).  MaxCategories: rows of the
\* category table.  MaxImages: files a create request may carry (the
\* configured MAX_IMAGES_PER_POST).  The initial table holds at most one
\* row, of any status, visibility and expiry.
\* MaxAlerts, MaxCrops: rows of the alert and crop tables.  MaxVisits: ids
\* and pending ids kept of a category expansion; a loop that visits every
\* stored category once collects at most MaxCategories ids.
MaxPosts == 2
MaxTicks == 1
MaxWrites == 1
MaxOwnerWrites == 2
MaxRequests == 2
MaxCategories == 3
MaxImages == 2
MaxAlerts == 2
MaxCrops == 2
MaxVisits == 5

\* ------------------------------------------------------ program constants
MIN_EXPIRY_DAYS == 30

\* ------------------------------------------------------------ vocabulary
NULL == 0
NoUser == "none"
T0 == 1

PENDING_REVIEW == "pending_review"
APPROVED == "approved"
REJECTED == "rejected"
ACTIVE == "active"
SOLD == "sold"
PAUSED == "paused"
EXPIRED == "expired"

StatusChoices == {PENDING_REVIEW, APPROVED, REJECTED, ACTIVE, SOLD, PAUSED, EXPIRED}

PUBLIC == "public"
PRIVATE == "private"
UNLISTED == "unlisted"

VisibilityChoices == {PUBLIC, PRIVATE, UNLISTED}

\* Users of the deployment: a plain user, a member of the "moderators" group
\* and a staff user (tests.py fixtures); "anon" is an unauthenticated caller.
Users == {"alice", "mod", "staff"}
Anonymous == "anon"
Callers == Users \cup {Anonymous}
Moderators == {"mod"}
Staff == {"staff"}

PostIds == 1..MaxPosts

CategoryIds == 1..MaxCategories

\* The columns of a Post row.  "content" stands for the owner-editable
\* descriptive columns (title, content, quantity, unit, municipality), which
\* no status logic and no filter of the model reads.  A price is a number of
\* hundredths (two decimal places).  A slug is empty or the generated one.
PostFields == {"user", "content", "status", "visibility", "expires_at",
               "is_featured", "view_count", "updated_at", "published_at",
               "reviewed_by", "reviewed_at", "review_notes", "category",
               "price", "slug"}

ALL_FIELDS == PostFields

VARIABLES
    posts,      \* stored rows: [PostIds -> row or NoPost]
    now,        \* timezone.now()
    last,       \* the last request that wrote, and its response
    hist,       \* per post: how it was created and what has happened to it
    nwrites,    \* number of requests that wrote
    inflight,   \* bag of requests that have read their post and not yet written
    categories, \* stored Category rows: [CategoryIds -> row]
    feed,       \* the last answer of the public feed's list
    images,     \* stored PostImage rows: [PostIds -> set of order values]
    alerts,     \* stored Alert rows: [AlertIds -> row or NoAlert]
    profiles,   \* stored Profile rows: [Users -> row or NoProfile]
    crops,      \* stored Crop rows: [CropIds -> row or NoCrop]
    expansion   \* the category expansion in progress: its ids and to_visit

vars ==
    <<posts, now, last, hist, nwrites, inflight, categories, feed, images,
      alerts, profiles, crops, expansion>>

NoPost == [user |-> NoUser]

Exists(p) == posts[p] # NoPost

NoHist ==
    [api |-> FALSE, everActive |-> FALSE, modOp |-> FALSE, views |-> 0,
     batch |-> <<>>]

NoImages == [p \in PostIds |-> {}]

\* ------------------------------------------------------------ privileges
is_authenticated(u) == u \in Users

is_privileged(u) == u \in Moderators \/ u \in Staff

\* ------------------------------------------------------------- Post.save
\* slugify(title) and a random suffix.
GeneratedSlug == "slug"

\* Variant: published_at is stamped on every save of an active post.
pre_save_restamp(inst) ==
    [inst EXCEPT
        !.slug = IF @ = "" THEN GeneratedSlug ELSE @,
        !.published_at = IF inst.status = ACTIVE THEN now ELSE @,
        !.updated_at = now]

\* In-memory effect of Post.save before the write: a slug is generated
\* when the instance has none, published_at is stamped on the instance when
\* it is active and has none; auto_now refreshes updated_at.
pre_save(inst) ==
    [inst EXCEPT
        !.slug = IF @ = "" THEN GeneratedSlug ELSE @,
        !.published_at = IF inst.status = ACTIVE /\ inst.published_at = NULL
                         THEN now ELSE @,
        !.updated_at = now]

\* The row stored by instance.save(update_fields=fields): only the named
\* columns are written, the others keep their stored value.
Post_save(stored, inst, fields) ==
    LET i == pre_save(inst)
    IN  [f \in PostFields |-> IF f \in fields THEN i[f] ELSE stored[f]]

\* Post.objects.create(**kwargs): model defaults, then a full save.
NewPost(user, status, visibility, expires_at) ==
    [user |-> user, content |-> 0, status |-> status,
     visibility |-> visibility, expires_at |-> expires_at,
     is_featured |-> FALSE, view_count |-> 0, updated_at |-> NULL,
     published_at |-> NULL, reviewed_by |-> NoUser, reviewed_at |-> NULL,
     review_notes |-> "", category |-> NULL, price |-> 0, slug |-> ""]

Post_objects_create(user, status, visibility, expires_at) ==
    LET inst == NewPost(user, status, visibility, expires_at)
    IN  Post_save(inst, inst, ALL_FIELDS)

\* ------------------------------------------------------ derived properties
is_active(post) == post.status = ACTIVE

is_available(post) ==
    /\ post.visibility = PUBLIC
    /\ is_active(post)
    /\ (~(post.expires_at # NULL) \/ post.expires_at > now)

is_sold(post) == post.status = SOLD

\* ------------------------------------------------------------- querysets
\* Variant: the expiry comparison admits a post that expires now.
PostFeed_get_queryset_gte ==
    {p \in PostIds :
        /\ Exists(p)
        /\ posts[p].status = ACTIVE
        /\ posts[p].visibility = PUBLIC
        /\ (posts[p].expires_at = NULL \/ posts[p].expires_at >= now)}

PostFeed_get_queryset ==
    {p \in PostIds :
        /\ Exists(p)
        /\ posts[p].status = ACTIVE
        /\ posts[p].visibility = PUBLIC
        /\ (posts[p].expires_at = NULL \/ posts[p].expires_at > now)}

\* Variant: the owner's rows are restricted to those that are not private.
UserPost_get_queryset_not_private(caller) ==
    IF ~is_authenticated(caller) THEN {}
    ELSE {p \in PostIds :
            Exists(p) /\ posts[p].user = caller /\ posts[p].visibility # PRIVATE}

UserPost_get_queryset(caller) ==
    IF ~is_authenticated(caller) THEN {}
    ELSE {p \in PostIds : Exists(p) /\ posts[p].user = caller}

PostModeration_queryset == {p \in PostIds : Exists(p)}

\* --------------------------------------------------------- expiry floor
normalize_expiry(expires_at) ==
    LET min_expiry == now + MIN_EXPIRY_DAYS
    IN  IF expires_at = NULL \/ expires_at < min_expiry
        THEN min_expiry ELSE expires_at

\* ------------------------------------------------------------- responses
HTTP_200_OK == 200
HTTP_201_CREATED == 201
HTTP_204_NO_CONTENT == 204
HTTP_400_BAD_REQUEST == 400
HTTP_403_FORBIDDEN == 403
HTTP_404_NOT_FOUND == 404
HTTP_500_INTERNAL_SERVER_ERROR == 500

NoStatus == "none"

StatusOf(p) == IF p \in PostIds /\ Exists(p) THEN posts[p].status ELSE NoStatus

VisibilityOf(p) ==
    IF p \in PostIds /\ Exists(p) THEN posts[p].visibility ELSE NoStatus

\* What is remembered of a request that wrote: the operation, the caller, the
\* post, the answer, the post's status and visibility before it (pre, vpre)
\* and, when the write before it was the same operation on the same post, the
\* status and visibility before that one (before, vbefore).
Response(op, caller, p, code) ==
    [op |-> op, caller |-> caller, pid |-> p, code |-> code, pre |-> StatusOf(p),
     before |-> IF last.op = op /\ last.pid = p THEN last.pre ELSE NoStatus,
     vpre |-> VisibilityOf(p),
     vbefore |-> IF last.op = op /\ last.pid = p THEN last.vpre ELSE NoStatus]

\* A request answered with an error writes nothing.
Refuse == UNCHANGED vars

\* The request stores row as post p and is answered with code.
Commit(op, caller, p, row, code, viaModeration) ==
    /\ nwrites' = nwrites + 1
    /\ posts' = [posts EXCEPT ![p] = row]
    /\ hist' = [hist EXCEPT ![p].everActive = @ \/ row.status = ACTIVE,
                            ![p].modOp = @ \/ viaModeration]
    /\ last' = Response(op, caller, p, code)
    /\ UNCHANGED <<now, inflight, categories, feed, images,
                   alerts, profiles, crops, expansion>>

\* ----------------------------------------------------------------- Init
\* Rows that exist before the first request were created at model level
\* (Post.objects.create, as the fixtures and the admin site do), with any
\* status, visibility and expiry.
SeedOwners == {"alice"}

SeedExpiry == {NULL, T0, T0 + MIN_EXPIRY_DAYS}

SeedRows ==
    {Post_objects_create(u, s, v, e) :
        u \in SeedOwners, s \in StatusChoices, v \in VisibilityChoices,
        e \in SeedExpiry}

\* A Category row: its parent (NULL for a root) and its is_active flag.
Category(parent, active) == [parent |-> parent, is_active |-> active]

\* Active root categories only (tests.py, create_category).
RootCategories == [c \in CategoryIds |-> Category(NULL, TRUE)]

\* A query parameter: absent, or given with its text, a sequence of
\* characters.
QueryParam(raw) == [given |-> TRUE, raw |-> raw]

NoParam == [given |-> FALSE, raw |-> <<>>]

\* The answer of the feed's list: status code, the keys of its validation
\* errors, the category ids it filtered on and the posts it returned.
FeedResponse(code, errors, category_ids, rows) ==
    [code |-> code, errors |-> errors, category_ids |-> category_ids,
     posts |-> rows]

\* What is remembered of the last list request of the feed: its parameters
\* and its answer.
FeedRequest(category, min_price, max_price, response) ==
    [category |-> category, min_price |-> min_price, max_price |-> max_price,
     response |-> response]

NoFeed == FeedRequest(NoParam, NoParam, NoParam, FeedResponse(0, {}, <<>>, {}))

\* ------------------------------------------------- alerts and locations
AlertIds == 1..MaxAlerts

\* Department rows, by id: their names, as sequences of characters.
DepartmentNames == << <<"A">>, <<"B">> >>

\* Municipality rows, by id: the department of each.
MunicipalityDepartment == <<1, 1, 2>>

\* A user has no Profile row, or one with a municipality or NULL.
NoProfile == [exists |-> FALSE, municipality |-> NULL]

Profile(municipality) == [exists |-> TRUE, municipality |-> municipality]

NoProfiles == [u \in Users |-> NoProfile]

GLOBAL == "global"
DEPARTAMENTAL == "departamental"

\* AlertCategory rows: their category_name.
AlertCategoryNames == {<<"c">>}

NoAlert == [scope |-> NoStatus]

NoAlerts == [a \in AlertIds |-> NoAlert]

\* --------------------------------------------------------------- crops
CropIds == 1..MaxCrops

NoCrop == [user_id |-> NoUser]

NoCrops == [c \in CropIds |-> NoCrop]

\* The locals of _get_category_and_descendants while it runs; here it has
\* not been entered.
NoExpansion == [started |-> FALSE, ids |-> <<>>, to_visit |-> <<>>]

NoRequest == [op |-> "none", caller |-> Anonymous, pid |-> 0, code |-> 0,
              pre |-> NoStatus, before |-> NoStatus, vpre |-> NoStatus,
              vbefore |-> NoStatus]

Init ==
    /\ now = T0
    /\ \E row \in SeedRows \cup {NoPost} :
        /\ posts = [p \in PostIds |-> IF p = 1 THEN row ELSE NoPost]
        /\ hist = [p \in PostIds |->
                     IF p = 1 /\ row # NoPost
                     THEN [NoHist EXCEPT !.everActive = row.status = ACTIVE]
                     ELSE NoHist]
    /\ last = NoRequest
    /\ nwrites = 0
    /\ inflight = EmptyBag
    /\ categories = RootCategories
    /\ feed = NoFeed
    /\ images = NoImages
    /\ alerts = NoAlerts
    /\ profiles = NoProfiles
    /\ crops = NoCrops
    /\ expansion = NoExpansion

\* ------------------------------------------------------- owner gateway
\* Variant: get_object() looks the post up among all rows.
OwnerLookup_unscoped(caller, p) ==
    IF ~is_authenticated(caller) THEN HTTP_403_FORBIDDEN
    ELSE IF p \notin PostModeration_queryset THEN HTTP_404_NOT_FOUND
    ELSE HTTP_200_OK

\* IsAuthenticated, then get_object() over the caller's own rows.
OwnerLookup(caller, p) ==
    IF ~is_authenticated(caller) THEN HTTP_403_FORBIDDEN
    ELSE IF p \notin UserPost_get_queryset(caller) THEN HTTP_404_NOT_FOUND
    ELSE HTTP_200_OK

\* PostCreateUpdateSerializer.create
PostCreateUpdateSerializer_create(caller, visibility, expires_at) ==
    Post_objects_create(caller, ACTIVE, visibility, normalize_expiry(expires_at))

NextId == CHOOSE p \in PostIds : ~Exists(p) /\ \A q \in 1..(p - 1) : Exists(q)

ExpiryInputs == {NULL, now + 1, now + 2 * MIN_EXPIRY_DAYS}

create_response(caller) ==
    IF ~is_authenticated(caller) THEN HTTP_403_FORBIDDEN ELSE HTTP_201_CREATED

create(caller, visibility, expires_at) ==
    /\ \E p \in PostIds : ~Exists(p)
    /\ IF create_response(caller) # HTTP_201_CREATED THEN Refuse
       ELSE LET post == PostCreateUpdateSerializer_create(caller, visibility, expires_at)
            IN  /\ nwrites' = nwrites + 1
                /\ posts' = [posts EXCEPT ![NextId] = post]
                /\ hist' = [hist EXCEPT ![NextId] =
                              [api |-> TRUE, everActive |-> post.status = ACTIVE,
                               modOp |-> FALSE, views |-> 0, batch |-> <<>>]]
                /\ last' = Response("create", caller, NextId, HTTP_201_CREATED)
                /\ UNCHANGED <<now, inflight, categories, feed, images,
                               alerts, profiles, crops, expansion>>

\* settings.MAX_IMAGES_PER_POST, the configured size of the largest batch.
MAX_IMAGES_PER_POST == MaxImages

\* The files of a create request, request.FILES.getlist("images"): for each
\* file, whether the storage backend stores it (TRUE) or raises (FALSE).
Batches == UNION {[1..n -> BOOLEAN] : n \in 0..(MAX_IMAGES_PER_POST + 1)}

\* The position of the first file the storage backend refuses, one past
\* the end when it stores them all.
FirstFailure(files) ==
    IF \A i \in DOMAIN files : files[i] THEN Len(files) + 1
    ELSE CHOOSE i \in DOMAIN files :
            ~files[i] /\ \A j \in 1..(i - 1) : files[j]

\* The loop over enumerate(images): one PostImage row per file, its order
\* the file's index from 0, until PostImage.objects.create raises.
PostImage_objects_create(files) ==
    {index - 1 : index \in 1..(FirstFailure(files) - 1)}

\* IsAuthenticated, the count check, then the post and its images; an
\* exception of the storage backend is not handled.
create_with_files_response(caller, files) ==
    IF ~is_authenticated(caller) THEN HTTP_403_FORBIDDEN
    ELSE IF Len(files) > MAX_IMAGES_PER_POST THEN HTTP_400_BAD_REQUEST
    ELSE IF FirstFailure(files) <= Len(files)
    THEN HTTP_500_INTERNAL_SERVER_ERROR
    ELSE HTTP_201_CREATED

\* POST my-listings with files.  The post row is stored before the loop over
\* the files, each image row as its file is stored; nothing is taken back
\* when a file raises.
create_with_files(caller, visibility, expires_at, files) ==
    /\ \E p \in PostIds : ~Exists(p)
    /\ LET code == create_with_files_response(caller, files)
       IN  IF code \in {HTTP_403_FORBIDDEN, HTTP_400_BAD_REQUEST} THEN Refuse
           ELSE LET post == PostCreateUpdateSerializer_create(
                                caller, visibility, expires_at)
                IN  /\ nwrites' = nwrites + 1
                    /\ posts' = [posts EXCEPT ![NextId] = post]
                    /\ images' = [images EXCEPT
                                    ![NextId] = PostImage_objects_create(files)]
                    /\ hist' = [hist EXCEPT ![NextId] =
                                  [api |-> TRUE,
                                   everActive |-> post.status = ACTIVE,
                                   modOp |-> FALSE, views |-> 0,
                                   batch |-> files]]
                    /\ last' = Response("create", caller, NextId, code)
                    /\ UNCHANGED <<now, inflight, categories, feed, alerts,
                                   profiles, crops, expansion>>

UserPost_retrieve_response(caller, p) == OwnerLookup(caller, p)

\* GET my-listings without query parameters: IsAuthenticated, then the
\* caller's queryset.
UserPost_list_response(caller) ==
    IF ~is_authenticated(caller) THEN HTTP_403_FORBIDDEN ELSE HTTP_200_OK

UserPost_list(caller) ==
    IF UserPost_list_response(caller) # HTTP_200_OK THEN {}
    ELSE UserPost_get_queryset(caller)

destroy_response(caller, p) ==
    IF OwnerLookup(caller, p) # HTTP_200_OK THEN OwnerLookup(caller, p)
    ELSE HTTP_204_NO_CONTENT

\* Variant: the instance is saved in full.
destroy_full_save(caller, p) ==
    IF destroy_response(caller, p) # HTTP_204_NO_CONTENT THEN Refuse
    ELSE LET instance == [posts[p] EXCEPT !.visibility = PRIVATE]
         IN  Commit("destroy", caller, p,
                    Post_save(posts[p], instance, ALL_FIELDS),
                    HTTP_204_NO_CONTENT, FALSE)

destroy(caller, p) ==
    IF destroy_response(caller, p) # HTTP_204_NO_CONTENT THEN Refuse
    ELSE LET instance == [posts[p] EXCEPT !.visibility = PRIVATE]
         IN  Commit("destroy", caller, p,
                    Post_save(posts[p], instance, {"visibility"}),
                    HTTP_204_NO_CONTENT, FALSE)

toggle_visibility_response(caller, p) == OwnerLookup(caller, p)

toggle_visibility(caller, p) ==
    IF toggle_visibility_response(caller, p) # HTTP_200_OK THEN Refuse
    ELSE LET post == [posts[p] EXCEPT
                        !.visibility = IF @ = PUBLIC THEN PRIVATE ELSE PUBLIC]
         IN  Commit("toggle_visibility", caller, p,
                    Post_save(posts[p], post, {"visibility"}),
                    HTTP_200_OK, FALSE)

\* Variant: the status check is missing.
mark_as_sold_response_unguarded(caller, p) == OwnerLookup(caller, p)

mark_as_sold_response(caller, p) ==
    IF OwnerLookup(caller, p) # HTTP_200_OK THEN OwnerLookup(caller, p)
    ELSE IF posts[p].status # ACTIVE THEN HTTP_400_BAD_REQUEST
    ELSE HTTP_200_OK

mark_as_sold(caller, p) ==
    IF mark_as_sold_response(caller, p) # HTTP_200_OK THEN Refuse
    ELSE LET post == [posts[p] EXCEPT !.status = SOLD]
         IN  Commit("mark_as_sold", caller, p,
                    Post_save(posts[p], post, {"status"}),
                    HTTP_200_OK, FALSE)

pause_listing_response(caller, p) ==
    IF OwnerLookup(caller, p) # HTTP_200_OK THEN OwnerLookup(caller, p)
    ELSE IF posts[p].status \notin {ACTIVE, PAUSED} THEN HTTP_400_BAD_REQUEST
    ELSE HTTP_200_OK

\* Variant: a paused listing is not resumed.
pause_listing_no_resume(caller, p) ==
    IF pause_listing_response(caller, p) # HTTP_200_OK THEN Refuse
    ELSE LET post == [posts[p] EXCEPT !.status = PAUSED]
         IN  Commit("pause_listing", caller, p,
                    Post_save(posts[p], post, {"status"}),
                    HTTP_200_OK, FALSE)

pause_listing(caller, p) ==
    IF pause_listing_response(caller, p) # HTTP_200_OK THEN Refuse
    ELSE LET post == [posts[p] EXCEPT
                        !.status = IF @ = ACTIVE THEN PAUSED ELSE ACTIVE]
         IN  Commit("pause_listing", caller, p,
                    Post_save(posts[p], post, {"status"}),
                    HTTP_200_OK, FALSE)

\* PostCreateUpdateSerializer.update followed by ModelSerializer.update:
\* the submitted columns are set on the instance, which is saved in full.
\* A submitted expires_at is raised to the floor; Absent marks a column the
\* request does not carry.
Absent == "absent"

KeepOr(value, current) == IF value = Absent THEN current ELSE value

PostCreateUpdateSerializer_update(instance, data) ==
    LET updated == [instance EXCEPT
                      !.content = IF data.content THEN 1 - @ ELSE @,
                      !.visibility = KeepOr(data.visibility, @),
                      !.expires_at = IF data.hasExpiry
                                     THEN normalize_expiry(data.expires_at)
                                     ELSE @]
    IN  Post_save(instance, updated, ALL_FIELDS)

update_response(caller, p) == OwnerLookup(caller, p)

update(caller, p, data) ==
    IF update_response(caller, p) # HTTP_200_OK THEN Refuse
    ELSE Commit("update", caller, p,
                PostCreateUpdateSerializer_update(posts[p], data),
                HTTP_200_OK, FALSE)

\* --------------------------------------------------- moderation gateway
\* GET moderation and GET moderation/pending_review: check_permissions, then
\* the unfiltered queryset, or its rows that are pending review.
Moderation_list_response(caller) ==
    IF ~is_authenticated(caller) THEN HTTP_403_FORBIDDEN
    ELSE IF ~is_privileged(caller) THEN HTTP_403_FORBIDDEN
    ELSE HTTP_200_OK

Moderation_list(caller) ==
    IF Moderation_list_response(caller) # HTTP_200_OK THEN {}
    ELSE PostModeration_queryset

pending_review(caller) ==
    IF Moderation_list_response(caller) # HTTP_200_OK THEN {}
    ELSE {p \in PostModeration_queryset : posts[p].status = PENDING_REVIEW}

\* Variant: authentication alone opens the moderation gateway.
ModerationLookup_authenticated(caller, p) ==
    IF ~is_authenticated(caller) THEN HTTP_403_FORBIDDEN
    ELSE IF p \notin PostModeration_queryset THEN HTTP_404_NOT_FOUND
    ELSE HTTP_200_OK

\* check_permissions, then get_object() over all rows.
ModerationLookup(caller, p) ==
    IF ~is_authenticated(caller) THEN HTTP_403_FORBIDDEN
    ELSE IF ~is_privileged(caller) THEN HTTP_403_FORBIDDEN
    ELSE IF p \notin PostModeration_queryset THEN HTTP_404_NOT_FOUND
    ELSE HTTP_200_OK

Moderation_retrieve_response(caller, p) == ModerationLookup(caller, p)

approve_response(caller, p) == ModerationLookup(caller, p)

approve(caller, p) ==
    IF approve_response(caller, p) # HTTP_200_OK THEN Refuse
    ELSE LET post == [posts[p] EXCEPT !.status = APPROVED,
                                      !.reviewed_by = caller,
                                      !.reviewed_at = now]
         IN  Commit("approve", caller, p,
                    Post_save(posts[p], post,
                              {"status", "reviewed_by", "reviewed_at"}),
                    HTTP_200_OK, TRUE)

reject_response(caller, p) == ModerationLookup(caller, p)

reject(caller, p, review_notes) ==
    IF reject_response(caller, p) # HTTP_200_OK THEN Refuse
    ELSE LET post == [posts[p] EXCEPT !.status = REJECTED,
                                      !.review_notes = review_notes,
                                      !.reviewed_by = caller,
                                      !.reviewed_at = now]
         IN  Commit("reject", caller, p,
                    Post_save(posts[p], post,
                              {"status", "review_notes", "reviewed_by",
                               "reviewed_at"}),
                    HTTP_200_OK, TRUE)

\* Variant: the status check is missing.
activate_response_unguarded(caller, p) == ModerationLookup(caller, p)

activate_response(caller, p) ==
    IF ModerationLookup(caller, p) # HTTP_200_OK THEN ModerationLookup(caller, p)
    ELSE IF posts[p].status # APPROVED THEN HTTP_400_BAD_REQUEST
    ELSE HTTP_200_OK

activate(caller, p) ==
    IF activate_response(caller, p) # HTTP_200_OK THEN Refuse
    ELSE LET post == [posts[p] EXCEPT
                        !.status = ACTIVE,
                        !.published_at = IF @ = NULL THEN now ELSE @]
         IN  Commit("activate", caller, p,
                    Post_save(posts[p], post, {"status", "published_at"}),
                    HTTP_200_OK, TRUE)

\* Variant: is_featured is not among the writable fields.
PostModerationSerializer_update_featured_read_only(instance, user, data) ==
    LET changing == data.status # Absent /\ data.status # instance.status
        stamped == IF changing
                   THEN [instance EXCEPT
                           !.reviewed_by = user,
                           !.reviewed_at = now,
                           !.published_at = IF data.status = ACTIVE /\ @ = NULL
                                            THEN now ELSE @]
                   ELSE instance
        updated == [stamped EXCEPT
                      !.status = KeepOr(data.status, @),
                      !.visibility = KeepOr(data.visibility, @),
                      !.review_notes = KeepOr(data.review_notes, @),
                      !.reviewed_by = user,
                      !.reviewed_at = now]
    IN  Post_save(instance, updated, ALL_FIELDS)

\* PostModerationSerializer.update, called by perform_update with
\* reviewed_by and reviewed_at added to the validated data.
PostModerationSerializer_update(instance, user, data) ==
    LET changing == data.status # Absent /\ data.status # instance.status
        stamped == IF changing
                   THEN [instance EXCEPT
                           !.reviewed_by = user,
                           !.reviewed_at = now,
                           !.published_at = IF data.status = ACTIVE /\ @ = NULL
                                            THEN now ELSE @]
                   ELSE instance
        updated == [stamped EXCEPT
                      !.status = KeepOr(data.status, @),
                      !.visibility = KeepOr(data.visibility, @),
                      !.is_featured = IF data.is_featured = Absent THEN @
                                      ELSE data.is_featured = "true",
                      !.review_notes = KeepOr(data.review_notes, @),
                      !.reviewed_by = user,
                      !.reviewed_at = now]
    IN  Post_save(instance, updated, ALL_FIELDS)

moderation_update_response(caller, p) == ModerationLookup(caller, p)

moderation_update(caller, p, data) ==
    IF moderation_update_response(caller, p) # HTTP_200_OK THEN Refuse
    ELSE Commit("moderation_update", caller, p,
                PostModerationSerializer_update(posts[p], caller, data),
                HTTP_200_OK, TRUE)

\* ----------------------------------------------------------------- time
Ticks == (now - T0) \div MIN_EXPIRY_DAYS

Tick ==
    /\ Ticks < MaxTicks
    /\ now' = now + MIN_EXPIRY_DAYS
    /\ UNCHANGED <<posts, hist, last, nwrites, inflight, categories, feed,
                   images, alerts, profiles, crops, expansion>>

\* ----------------------------------------------------------------- Next
ReviewNotes == {"", "note"}

\* Request bodies of the owner's update: the descriptive columns alone, one
\* visibility, or an expiry (null, below the floor, above it).
OwnerPayload(content, visibility, hasExpiry, expires_at) ==
    [content |-> content, visibility |-> visibility, hasExpiry |-> hasExpiry,
     expires_at |-> expires_at]

OwnerPayloads ==
    {OwnerPayload(TRUE, Absent, FALSE, NULL)}
    \cup {OwnerPayload(FALSE, v, FALSE, NULL) : v \in VisibilityChoices}
    \cup {OwnerPayload(FALSE, Absent, TRUE, e) : e \in ExpiryInputs}

\* Request bodies of the moderation update: empty, one column alone, or a
\* status together with notes and the featured flag (tests.py:1081).
ModerationPayload(status, visibility, is_featured, review_notes) ==
    [status |-> status, visibility |-> visibility, is_featured |-> is_featured,
     review_notes |-> review_notes]

ModerationPayloads ==
    {ModerationPayload(Absent, Absent, Absent, Absent)}
    \cup {ModerationPayload(s, Absent, Absent, Absent) : s \in StatusChoices}
    \cup {ModerationPayload(Absent, v, Absent, Absent) : v \in VisibilityChoices}
    \cup {ModerationPayload(Absent, Absent, f, Absent) : f \in {"true", "false"}}
    \cup {ModerationPayload(Absent, Absent, Absent, n) : n \in ReviewNotes}
    \cup {ModerationPayload(s, Absent, "true", "note") : s \in {APPROVED, ACTIVE}}

\* Requests of the owner gateway, by any caller on any post id.
OwnerCreate(budget) ==
    /\ nwrites < budget
    /\ \E c \in Callers, v \in VisibilityChoices, e \in ExpiryInputs :
        create(c, v, e)

OwnerUpdate(budget) ==
    /\ nwrites < budget
    /\ \E c \in Callers, p \in PostIds, data \in OwnerPayloads :
        update(c, p, data)

OwnerDestroy(budget) ==
    /\ nwrites < budget
    /\ \E c \in Callers, p \in PostIds : destroy(c, p)

OwnerToggleVisibility(budget) ==
    /\ nwrites < budget
    /\ \E c \in Callers, p \in PostIds : toggle_visibility(c, p)

OwnerMarkAsSold(budget) ==
    /\ nwrites < budget
    /\ \E c \in Callers, p \in PostIds : mark_as_sold(c, p)

OwnerPauseListing(budget) ==
    /\ nwrites < budget
    /\ \E c \in Callers, p \in PostIds : pause_listing(c, p)

Create == OwnerCreate(MaxWrites)

Update == OwnerUpdate(MaxWrites)

Destroy == OwnerDestroy(MaxWrites)

ToggleVisibility == OwnerToggleVisibility(MaxWrites)

MarkAsSold == OwnerMarkAsSold(MaxWrites)

PauseListing == OwnerPauseListing(MaxWrites)

\* Requests of the moderation gateway, by any caller on any post id.
Approve ==
    /\ nwrites < MaxWrites
    /\ \E c \in Callers, p \in PostIds : approve(c, p)

Reject ==
    /\ nwrites < MaxWrites
    /\ \E c \in Callers, p \in PostIds, n \in ReviewNotes : reject(c, p, n)

Activate ==
    /\ nwrites < MaxWrites
    /\ \E c \in Callers, p \in PostIds : activate(c, p)

ModerationUpdate ==
    /\ nwrites < MaxWrites
    /\ \E c \in Callers, p \in PostIds, data \in ModerationPayloads :
        moderation_update(c, p, data)

Next ==
    \/ Create
    \/ Update
    \/ Destroy
    \/ ToggleVisibility
    \/ MarkAsSold
    \/ PauseListing
    \/ Approve
    \/ Reject
    \/ Activate
    \/ ModerationUpdate
    \/ Tick

Spec == Init /\ [][Next]_vars

\* The owner gateway alone: no moderation request is ever made.
NextOwner ==
    \/ OwnerCreate(MaxOwnerWrites)
    \/ OwnerUpdate(MaxOwnerWrites)
    \/ OwnerDestroy(MaxOwnerWrites)
    \/ OwnerToggleVisibility(MaxOwnerWrites)
    \/ OwnerMarkAsSold(MaxOwnerWrites)
    \/ OwnerPauseListing(MaxOwnerWrites)
    \/ Tick

SpecOwner == Init /\ [][NextOwner]_vars

\* ------------------------------------------------- concurrent requests
\* No handler runs in a transaction or locks its row: between get_object()
\* and the write of one request, other requests read and write the same
\* row.  A request in flight holds the instance it has read.
NoOwnerData == OwnerPayload(FALSE, Absent, FALSE, NULL)

NoModerationData == ModerationPayload(Absent, Absent, Absent, Absent)

Request(op, caller, p, review_notes, owner_data, moderation_data) ==
    [op |-> op, caller |-> caller, pid |-> p, instance |-> posts[p],
     review_notes |-> review_notes, owner_data |-> owner_data,
     moderation_data |-> moderation_data]

Begun == BagCardinality(inflight) + nwrites

\* get_object(), and the checks the handler makes on the instance it got:
\* the request is refused, or goes on with that instance.
Read(code, ok, req) ==
    IF code # ok THEN Refuse
    ELSE /\ inflight' = inflight (+) SetToBag({req})
         /\ UNCHANGED <<posts, now, last, hist, nwrites, categories, feed,
                        images, alerts, profiles, crops, expansion>>

\* The write of a request in flight, and its answer.
Write(req, row, code, viaModeration) ==
    /\ inflight' = inflight (-) SetToBag({req})
    /\ nwrites' = nwrites + 1
    /\ posts' = [posts EXCEPT ![req.pid] = row]
    /\ hist' = [hist EXCEPT
                  ![req.pid].everActive = @ \/ row.status = ACTIVE,
                  ![req.pid].modOp = @ \/ viaModeration,
                  ![req.pid].views = IF req.op = "retrieve" THEN @ + 1 ELSE @]
    /\ last' = Response(req.op, req.caller, req.pid, code)
    /\ UNCHANGED <<now, categories, feed, images,
                   alerts, profiles, crops, expansion>>

InFlight(op) == {req \in BagToSet(inflight) : req.op = op}

\* PostFeedViewSet.retrieve: get_object() over the feed, then an UPDATE of
\* the row's view_count by F("view_count") + 1, which saves no instance.
FeedRetrieve_response(p) ==
    IF p \notin PostFeed_get_queryset THEN HTTP_404_NOT_FOUND ELSE HTTP_200_OK

ReadFeedRetrieve ==
    /\ Begun < MaxRequests
    /\ \E c \in Callers, p \in PostIds :
        Read(FeedRetrieve_response(p), HTTP_200_OK,
             Request("retrieve", c, p, "", NoOwnerData, NoModerationData))

WriteFeedRetrieve ==
    \E req \in InFlight("retrieve") :
        Write(req, [posts[req.pid] EXCEPT !.view_count = @ + 1],
              HTTP_200_OK, FALSE)

\* Request bodies used while requests overlap.
ConcurrentOwnerPayloads == {OwnerPayload(TRUE, Absent, FALSE, NULL)}

ConcurrentModerationPayloads == {ModerationPayload(Absent, Absent, "true", Absent)}

ReadUpdate ==
    /\ Begun < MaxRequests
    /\ \E c \in Callers, p \in PostIds, data \in ConcurrentOwnerPayloads :
        Read(update_response(c, p), HTTP_200_OK,
             Request("update", c, p, "", data, NoModerationData))

WriteUpdate ==
    \E req \in InFlight("update") :
        Write(req, PostCreateUpdateSerializer_update(req.instance, req.owner_data),
              HTTP_200_OK, FALSE)

ReadMarkAsSold ==
    /\ Begun < MaxRequests
    /\ \E c \in Callers, p \in PostIds :
        Read(mark_as_sold_response(c, p), HTTP_200_OK,
             Request("mark_as_sold", c, p, "", NoOwnerData, NoModerationData))

WriteMarkAsSold ==
    \E req \in InFlight("mark_as_sold") :
        Write(req,
              Post_save(posts[req.pid], [req.instance EXCEPT !.status = SOLD],
                        {"status"}),
              HTTP_200_OK, FALSE)

ReadPauseListing ==
    /\ Begun < MaxRequests
    /\ \E c \in Callers, p \in PostIds :
        Read(pause_listing_response(c, p), HTTP_200_OK,
             Request("pause_listing", c, p, "", NoOwnerData, NoModerationData))

WritePauseListing ==
    \E req \in InFlight("pause_listing") :
        Write(req,
              Post_save(posts[req.pid],
                        [req.instance EXCEPT
                           !.status = IF @ = ACTIVE THEN PAUSED ELSE ACTIVE],
                        {"status"}),
              HTTP_200_OK, FALSE)

ReadApprove ==
    /\ Begun < MaxRequests
    /\ \E c \in Callers, p \in PostIds :
        Read(approve_response(c, p), HTTP_200_OK,
             Request("approve", c, p, "", NoOwnerData, NoModerationData))

WriteApprove ==
    \E req \in InFlight("approve") :
        Write(req,
              Post_save(posts[req.pid],
                        [req.instance EXCEPT !.status = APPROVED,
                                             !.reviewed_by = req.caller,
                                             !.reviewed_at = now],
                        {"status", "reviewed_by", "reviewed_at"}),
              HTTP_200_OK, TRUE)

ReadReject ==
    /\ Begun < MaxRequests
    /\ \E c \in Callers, p \in PostIds, n \in ReviewNotes :
        Read(reject_response(c, p), HTTP_200_OK,
             Request("reject", c, p, n, NoOwnerData, NoModerationData))

WriteReject ==
    \E req \in InFlight("reject") :
        Write(req,
              Post_save(posts[req.pid],
                        [req.instance EXCEPT !.status = REJECTED,
                                             !.review_notes = req.review_notes,
                                             !.reviewed_by = req.caller,
                                             !.reviewed_at = now],
                        {"status", "review_notes", "reviewed_by", "reviewed_at"}),
              HTTP_200_OK, TRUE)

ReadActivate ==
    /\ Begun < MaxRequests
    /\ \E c \in Callers, p \in PostIds :
        Read(activate_response(c, p), HTTP_200_OK,
             Request("activate", c, p, "", NoOwnerData, NoModerationData))

WriteActivate ==
    \E req \in InFlight("activate") :
        Write(req,
              Post_save(posts[req.pid],
                        [req.instance EXCEPT
                           !.status = ACTIVE,
                           !.published_at = IF @ = NULL THEN now ELSE @],
                        {"status", "published_at"}),
              HTTP_200_OK, TRUE)

ReadModerationUpdate ==
    /\ Begun < MaxRequests
    /\ \E c \in Callers, p \in PostIds, data \in ConcurrentModerationPayloads :
        Read(moderation_update_response(c, p), HTTP_200_OK,
             Request("moderation_update", c, p, "", NoOwnerData, data))

WriteModerationUpdate ==
    \E req \in InFlight("moderation_update") :
        Write(req,
              PostModerationSerializer_update(req.instance, req.caller,
                                              req.moderation_data),
              HTTP_200_OK, TRUE)

NextConcurrent ==
    \/ ReadFeedRetrieve
    \/ WriteFeedRetrieve
    \/ ReadUpdate
    \/ WriteUpdate
    \/ ReadMarkAsSold
    \/ WriteMarkAsSold
    \/ ReadPauseListing
    \/ WritePauseListing
    \/ ReadApprove
    \/ WriteApprove
    \/ ReadReject
    \/ WriteReject
    \/ ReadActivate
    \/ WriteActivate
    \/ ReadModerationUpdate
    \/ WriteModerationUpdate

SpecConcurrent == Init /\ [][NextConcurrent]_vars

\* --------------------------------------------------- public feed filters
Digits == <<"0", "1", "2", "3", "4", "5", "6", "7", "8", "9">>

IsDigit(ch) == \E i \in 1..10 : Digits[i] = ch

DigitValue(ch) == (CHOOSE i \in 1..10 : Digits[i] = ch) - 1

AllDigits(raw) == Len(raw) > 0 /\ \A i \in 1..Len(raw) : IsDigit(raw[i])

RECURSIVE DigitsValue(_)
DigitsValue(raw) ==
    IF raw = <<>> THEN 0
    ELSE 10 * DigitsValue(SubSeq(raw, 1, Len(raw) - 1)) + DigitValue(raw[Len(raw)])

\* int(text): the value of an optionally signed run of digits, a ValueError
\* (ok = FALSE) for any other text.
int(raw) ==
    IF AllDigits(raw) THEN [ok |-> TRUE, value |-> DigitsValue(raw)]
    ELSE IF Len(raw) > 1 /\ raw[1] \in {"+", "-"} /\ AllDigits(Tail(raw))
    THEN [ok |-> TRUE,
          value |-> IF raw[1] = "-" THEN 0 - DigitsValue(Tail(raw))
                    ELSE DigitsValue(Tail(raw))]
    ELSE [ok |-> FALSE, value |-> 0]

\* The rows of a values_list("id") query, in ascending id order.
RECURSIVE values_list(_)
values_list(ids) ==
    IF ids = {} THEN <<>>
    ELSE LET first == CHOOSE c \in ids : \A d \in ids : c <= d
         IN  <<first>> \o values_list(ids \ {first})

\* Variant: inactive children are followed too.
active_children_any(current) ==
    {c \in CategoryIds :
        categories[c].parent # NULL /\ categories[c].parent = current}

\* Category.objects.filter(parent_id=current, is_active=True)
active_children(current) ==
    {c \in CategoryIds :
        /\ categories[c].parent # NULL
        /\ categories[c].parent = current
        /\ categories[c].is_active}

\* The while loop of _get_category_and_descendants: pop the last id of
\* to_visit, append it to ids, push its active children.
RECURSIVE visit(_, _)
visit(ids, to_visit) ==
    IF to_visit = <<>> THEN ids
    ELSE LET current == to_visit[Len(to_visit)]
             rest == SubSeq(to_visit, 1, Len(to_visit) - 1)
         IN  visit(Append(ids, current),
                   rest \o values_list(active_children(current)))

\* Variant: an id that is not stored gives no ids.
get_category_and_descendants_stored(category_id) ==
    LET cid == int(category_id)
    IN  IF ~cid.ok \/ cid.value \notin CategoryIds THEN <<>>
        ELSE visit(<<>>, <<cid.value>>)

get_category_and_descendants(category_id) ==
    LET cid == int(category_id)
    IN  IF ~cid.ok THEN <<>> ELSE visit(<<>>, <<cid.value>>)

\* _get_category_and_descendants, statement by statement.  The entry parses
\* the id: a text that is no integer returns [] at once, any integer is put
\* on to_visit.
expansion_begin(category_id) ==
    /\ ~expansion.started
    /\ LET cid == int(category_id)
       IN  expansion' = [started |-> TRUE, ids |-> <<>>,
                         to_visit |-> IF ~cid.ok THEN <<>> ELSE <<cid.value>>]
    /\ UNCHANGED <<posts, now, last, hist, nwrites, inflight, categories, feed,
                   images, alerts, profiles, crops>>

\* One pass of the while loop: pop the last id of to_visit, append it to
\* ids, push its active children.  Nothing is remembered of the ids already
\* visited.  Of a loop that goes on, the first MaxVisits ids and the last
\* MaxVisits entries of to_visit are kept; a loop that visits each stored
\* category once never holds more.
expansion_step ==
    /\ expansion.started
    /\ expansion.to_visit # <<>>
    /\ LET to_visit == expansion.to_visit
           current == to_visit[Len(to_visit)]
           rest == SubSeq(to_visit, 1, Len(to_visit) - 1)
           extended == rest \o values_list(active_children(current))
       IN  expansion' =
               [started |-> TRUE,
                ids |-> IF Len(expansion.ids) < MaxVisits
                        THEN Append(expansion.ids, current)
                        ELSE expansion.ids,
                to_visit |-> IF Len(extended) <= MaxVisits THEN extended
                             ELSE SubSeq(extended,
                                         Len(extended) - MaxVisits + 1,
                                         Len(extended))]
    /\ UNCHANGED <<posts, now, last, hist, nwrites, inflight, categories, feed,
                   images, alerts, profiles, crops>>

\* Decimal(text).  An optionally signed number with at most one point is a
\* number, valued here in hundredths (fractions of up to two digits, the
\* scale of the price column); NaN and Infinity are accepted as special
\* values; any other text raises InvalidOperation (kind "invalid").
NaNText == <<"N", "a", "N">>

InfinityText == <<"I", "n", "f", "i", "n", "i", "t", "y">>

Unsigned(raw) ==
    IF Len(raw) > 0 /\ raw[1] \in {"+", "-"} THEN Tail(raw) ELSE raw

Sign(raw) == IF Len(raw) > 0 /\ raw[1] = "-" THEN 0 - 1 ELSE 1

PointAt(body) ==
    IF \E i \in 1..Len(body) : body[i] = "."
    THEN CHOOSE i \in 1..Len(body) : body[i] = "." /\ \A j \in 1..(i - 1) : body[j] # "."
    ELSE Len(body) + 1

Hundredths(frac) ==
    IF Len(frac) = 0 THEN 0
    ELSE IF Len(frac) = 1 THEN 10 * DigitsValue(frac)
    ELSE DigitsValue(frac)

Decimal(raw) ==
    LET body == Unsigned(raw)
        whole == SubSeq(body, 1, PointAt(body) - 1)
        frac == SubSeq(body, PointAt(body) + 1, Len(body))
    IN  IF body = NaNText THEN [kind |-> "nan", value |-> 0]
        ELSE IF body = InfinityText THEN [kind |-> "infinity", value |-> Sign(raw)]
        ELSE IF /\ whole = <<>> \/ AllDigits(whole)
                /\ frac = <<>> \/ AllDigits(frac)
                /\ whole # <<>> \/ frac # <<>>
        THEN [kind |-> "number",
              value |-> Sign(raw) * (100 * DigitsValue(whole) + Hundredths(frac))]
        ELSE [kind |-> "invalid", value |-> 0]

\* _get_decimal_param: no value for an absent parameter; a ValidationError
\* keyed by the parameter's name when Decimal raises, when the comparison
\* with 0 raises (NaN) or when the value is below 0; the value otherwise.
get_decimal_param(param) ==
    LET decimal_value == Decimal(param.raw)
    IN  IF ~param.given THEN [kind |-> "none", value |-> 0]
        ELSE IF decimal_value.kind \in {"invalid", "nan"}
        THEN [kind |-> "error", value |-> 0]
        ELSE IF decimal_value.value < 0 THEN [kind |-> "error", value |-> 0]
        ELSE [kind |-> decimal_value.kind, value |-> decimal_value.value]

\* What the query does with a price bound that is not finite is decided
\* outside this repository: the request crashes, or the bound is compared as
\* the infinite value it is.
NonFiniteOutcomes == {"crash", "compare"}

\* The outcomes open to a request with the given price bounds.
Outcomes(min_price, max_price) ==
    IF "infinity" \in {get_decimal_param(min_price).kind,
                       get_decimal_param(max_price).kind}
    THEN NonFiniteOutcomes ELSE {"compare"}

\* PostFeedViewSet.get_queryset and list, for the category, min_price and
\* max_price parameters.
PostFeed_list(category, min_price, max_price, non_finite) ==
    LET category_ids ==
            IF category.given /\ category.raw # <<>>
            THEN get_category_and_descendants(category.raw) ELSE <<>>
        by_category ==
            IF ~(category.given /\ category.raw # <<>>) THEN PostFeed_get_queryset
            ELSE IF category_ids # <<>>
            THEN {p \in PostFeed_get_queryset :
                    /\ posts[p].category # NULL
                    /\ \E i \in 1..Len(category_ids) :
                        category_ids[i] = posts[p].category}
            ELSE {}
        lo == get_decimal_param(min_price)
        hi == get_decimal_param(max_price)
        by_min == IF lo.kind = "none" THEN by_category
                  ELSE IF lo.kind = "infinity" THEN {}
                  ELSE {p \in by_category : posts[p].price >= lo.value}
        by_max == IF hi.kind \in {"none", "infinity"} THEN by_min
                  ELSE {p \in by_min : posts[p].price <= hi.value}
    IN  IF lo.kind = "error"
        THEN FeedResponse(HTTP_400_BAD_REQUEST, {"min_price"}, category_ids, {})
        ELSE IF hi.kind = "error"
        THEN FeedResponse(HTTP_400_BAD_REQUEST, {"max_price"}, category_ids, {})
        ELSE IF "infinity" \in {lo.kind, hi.kind} /\ non_finite = "crash"
        THEN FeedResponse(HTTP_500_INTERNAL_SERVER_ERROR, {}, category_ids, {})
        ELSE FeedResponse(HTTP_200_OK, {}, category_ids, by_max)

\* GET marketplace with the given parameters.
FeedList(category, min_price, max_price) ==
    /\ \E non_finite \in Outcomes(min_price, max_price) :
        feed' = FeedRequest(category, min_price, max_price,
                            PostFeed_list(category, min_price, max_price,
                                          non_finite))
    /\ UNCHANGED <<posts, now, last, hist, nwrites, inflight, categories,
                   images, alerts, profiles, crops, expansion>>

\* The text of a non-negative integer below 100.
IdText(n) ==
    IF n < 10 THEN <<Digits[n + 1]>>
    ELSE <<Digits[(n \div 10) + 1], Digits[(n % 10) + 1]>>

\* An id no stored category has.
MissingCategoryId == MaxCategories + 10

\* Values of the category parameter: absent, empty, not an integer, zero,
\* the id of each stored category, an id that is not stored.
CategoryParams ==
    {NoParam, QueryParam(<<>>), QueryParam(<<"a", "b", "c">>), QueryParam(<<"0">>)}
    \cup {QueryParam(IdText(c)) : c \in CategoryIds \cup {MissingCategoryId}}

\* Category tables: every id is stored, each row active or not, the parent
\* links form a forest.
RECURSIVE IsRootedWithin(_, _, _)
IsRootedWithin(table, c, steps) ==
    IF table[c].parent = NULL THEN TRUE
    ELSE IF steps = 0 THEN FALSE
    ELSE IsRootedWithin(table, table[c].parent, steps - 1)

CategoryTables ==
    {table \in [CategoryIds ->
                  {Category(parent, active) :
                      parent \in CategoryIds \cup {NULL}, active \in BOOLEAN}] :
        \A c \in CategoryIds : IsRootedWithin(table, c, MaxCategories)}

\* Post tables of the category filter: public posts without expiry, each in
\* any category or in none; the first is active or paused, the others are
\* active.
CategorisedRows ==
    {[Post_objects_create(u, s, PUBLIC, NULL) EXCEPT !.category = c] :
        u \in SeedOwners, s \in {ACTIVE, PAUSED}, c \in CategoryIds \cup {NULL}}

CategorisedTables ==
    {table \in [PostIds -> CategorisedRows] :
        \A p \in PostIds \ {1} : table[p].status = ACTIVE}

FeedInit(category_tables, post_tables) ==
    /\ now = T0
    /\ categories \in category_tables
    /\ posts \in post_tables
    /\ hist = [p \in PostIds |->
                 [NoHist EXCEPT !.everActive = posts[p].status = ACTIVE]]
    /\ last = NoRequest
    /\ nwrites = 0
    /\ inflight = EmptyBag
    /\ feed = NoFeed
    /\ images = NoImages
    /\ alerts = NoAlerts
    /\ profiles = NoProfiles
    /\ crops = NoCrops
    /\ expansion = NoExpansion

InitCategoryFeed == FeedInit(CategoryTables, CategorisedTables)

\* Category tables with any parent links the parent column can hold: null,
\* the row itself, or any other row, so that links may form cycles.
AnyCategoryTables ==
    [CategoryIds ->
        {Category(parent, active) :
            parent \in CategoryIds \cup {NULL}, active \in BOOLEAN}]

InitCategoryCycles ==
    /\ now = T0
    /\ posts = [p \in PostIds |-> NoPost]
    /\ hist = [p \in PostIds |-> NoHist]
    /\ last = NoRequest
    /\ nwrites = 0
    /\ inflight = EmptyBag
    /\ categories \in AnyCategoryTables
    /\ feed = NoFeed
    /\ images = NoImages
    /\ alerts = NoAlerts
    /\ profiles = NoProfiles
    /\ crops = NoCrops
    /\ expansion = NoExpansion

\* Ids the expansion is asked for: a text that is no integer, each stored
\* id, an id that is not stored.
ExpansionBegin ==
    \E category_id \in {<<"a", "b", "c">>}
                        \cup {IdText(c) : c \in CategoryIds \cup {MissingCategoryId}} :
        expansion_begin(category_id)

NextCategoryCycles == ExpansionBegin \/ expansion_step

\* The loop runs on once entered: a pass that can be made is made.
SpecCategoryCycles ==
    InitCategoryCycles /\ [][NextCategoryCycles]_vars /\ WF_vars(expansion_step)

FeedListByCategory ==
    \E category \in CategoryParams : FeedList(category, NoParam, NoParam)

SpecCategoryFeed == InitCategoryFeed /\ [][FeedListByCategory]_vars

\* Values of min_price and max_price: absent, empty, not a number, negative,
\* NaN, infinite, and numbers with and without a fraction
\* (tests.py:1539, spec examples -5, abc, 25.00).
PriceParams ==
    {NoParam, QueryParam(<<>>), QueryParam(<<"a", "b", "c">>),
     QueryParam(<<"-", "5">>), QueryParam(NaNText), QueryParam(InfinityText),
     QueryParam(<<"-">> \o InfinityText), QueryParam(<<"0">>),
     QueryParam(<<"2", "5">>), QueryParam(<<"2", "5", ".", "0", "0">>),
     QueryParam(<<"1", "0", ".", "5">>), QueryParam(<<"5", "0">>)}

\* Prices of stored posts, in hundredths: 10.00, 25.00 and 50.00.
Prices == {1000, 2500, 5000}

\* Post tables of the price filter: public posts without expiry or
\* category, active or paused, at any of the prices.
PricedRows ==
    {[Post_objects_create(u, s, PUBLIC, NULL) EXCEPT !.price = price] :
        u \in SeedOwners, s \in {ACTIVE, PAUSED}, price \in Prices}

InitPriceFeed == FeedInit({RootCategories}, [PostIds -> PricedRows])

FeedListByPrice ==
    \E min_price \in PriceParams, max_price \in PriceParams :
        FeedList(NoParam, min_price, max_price)

SpecPriceFeed == InitPriceFeed /\ [][FeedListByPrice]_vars

\* ======================================================================
\* Creation with files: create requests alone, each with a batch of files
\* that the storage backend stores or refuses one by one.
CreateWithFiles ==
    /\ nwrites < MaxWrites
    /\ \E c \in Callers, v \in VisibilityChoices, e \in ExpiryInputs,
          files \in Batches :
        create_with_files(c, v, e, files)

SpecCreateWithFiles == Init /\ [][CreateWithFiles]_vars

\* ======================================================================
\* Alerts
\* The tables of the posts application, which no alert or crop request
\* touches.
PostTables ==
    <<posts, now, last, hist, nwrites, inflight, categories, feed, images>>

\* Empty tables, with any of the given profile tables.
EmptyInit(profile_tables) ==
    /\ now = T0
    /\ posts = [p \in PostIds |-> NoPost]
    /\ hist = [p \in PostIds |-> NoHist]
    /\ last = NoRequest
    /\ nwrites = 0
    /\ inflight = EmptyBag
    /\ categories = RootCategories
    /\ feed = NoFeed
    /\ images = NoImages
    /\ alerts = NoAlerts
    /\ profiles \in profile_tables
    /\ crops = NoCrops
    /\ expansion = NoExpansion

\* Variant: a departmental alert is shown to every caller who has a
\* municipality.
Alert_get_queryset_any_department(caller) ==
    LET municipality ==
            IF is_authenticated(caller) /\ profiles[caller].exists
            THEN profiles[caller].municipality ELSE NULL
    IN  {a \in AlertIds :
            \/ alerts[a].scope = GLOBAL
            \/ /\ municipality # NULL
               /\ alerts[a].scope = DEPARTAMENTAL}

\* AlertViewSet.get_queryset: the global alerts and, when the caller's
\* profile has a municipality, the departmental alerts of its department.
Alert_get_queryset(caller) ==
    LET municipality ==
            IF is_authenticated(caller) /\ profiles[caller].exists
            THEN profiles[caller].municipality ELSE NULL
    IN  {a \in AlertIds :
            \/ alerts[a].scope = GLOBAL
            \/ /\ municipality # NULL
               /\ alerts[a].scope = DEPARTAMENTAL
               /\ alerts[a].department = MunicipalityDepartment[municipality]}

\* GET alerts without query parameters: IsAuthenticated, then the queryset.
Alert_list_response(caller) ==
    IF ~is_authenticated(caller) THEN HTTP_403_FORBIDDEN ELSE HTTP_200_OK

Alert_list(caller) ==
    IF Alert_list_response(caller) # HTTP_200_OK THEN {}
    ELSE Alert_get_queryset(caller)

\* CharField(trim_whitespace=True): the text without the blanks at its ends.
RECURSIVE strip(_)
strip(text) ==
    IF text = <<>> THEN text
    ELSE IF Head(text) = " " THEN strip(Tail(text))
    ELSE IF text[Len(text)] = " " THEN strip(SubSeq(text, 1, Len(text) - 1))
    ELSE text

\* Department.objects.get(name=name): the id of the row, NULL for
\* DoesNotExist.
Department_get(name) ==
    IF \E d \in DOMAIN DepartmentNames : DepartmentNames[d] = name
    THEN CHOOSE d \in DOMAIN DepartmentNames : DepartmentNames[d] = name
    ELSE NULL

\* The body of a create request: scope (or Absent), department_name and
\* category_name (each given with its text, or not given).
AlertData(scope, department_name, category_name) ==
    [scope |-> scope, department_name |-> department_name,
     category_name |-> category_name]

\* Variant: a departmental scope is accepted without a department name.
AlertWriteSerrializer_validate_any_scope(data) ==
    LET category_name == strip(data.category_name.raw)
        department_name == strip(data.department_name.raw)
    IN  IF ~data.category_name.given \/ category_name = <<>>
        THEN [ok |-> FALSE, department |-> NULL]
        ELSE IF category_name \notin AlertCategoryNames
        THEN [ok |-> FALSE, department |-> NULL]
        ELSE IF department_name = <<>> THEN [ok |-> TRUE, department |-> NULL]
        ELSE IF Department_get(department_name) = NULL
        THEN [ok |-> FALSE, department |-> NULL]
        ELSE [ok |-> TRUE, department |-> Department_get(department_name)]

\* The fields' own validation (category_name required and not blank,
\* department_name optional and possibly blank, both trimmed), then
\* AlertWriteSerrializer.validate: whether the data is valid, and the
\* department it resolved.
AlertWriteSerrializer_validate(data) ==
    LET category_name == strip(data.category_name.raw)
        department_name == strip(data.department_name.raw)
    IN  IF ~data.category_name.given \/ category_name = <<>>
        THEN [ok |-> FALSE, department |-> NULL]
        ELSE IF data.scope = DEPARTAMENTAL /\ department_name = <<>>
        THEN [ok |-> FALSE, department |-> NULL]
        ELSE IF category_name \notin AlertCategoryNames
        THEN [ok |-> FALSE, department |-> NULL]
        ELSE IF department_name = <<>> THEN [ok |-> TRUE, department |-> NULL]
        ELSE IF Department_get(department_name) = NULL
        THEN [ok |-> FALSE, department |-> NULL]
        ELSE [ok |-> TRUE, department |-> Department_get(department_name)]

\* POST alerts/create: IsAuthenticated, then the serializer.
Alert_create_response(caller, data) ==
    IF ~is_authenticated(caller) THEN HTTP_403_FORBIDDEN
    ELSE IF ~AlertWriteSerrializer_validate(data).ok THEN HTTP_400_BAD_REQUEST
    ELSE HTTP_201_CREATED

\* AlertWriteSerrializer.create: the alert is stored with the scope given
\* (global by default), the department resolved and the caller as
\* created_by.
Alert_create(caller, data) ==
    /\ \E a \in AlertIds : alerts[a] = NoAlert
    /\ IF Alert_create_response(caller, data) # HTTP_201_CREATED THEN Refuse
       ELSE LET id == CHOOSE a \in AlertIds :
                        /\ alerts[a] = NoAlert
                        /\ \A b \in 1..(a - 1) : alerts[b] # NoAlert
                row == [scope |-> KeepOr(data.scope, GLOBAL),
                        department |->
                            AlertWriteSerrializer_validate(data).department,
                        created_by |-> caller]
            IN  /\ alerts' = [alerts EXCEPT ![id] = row]
                /\ UNCHANGED <<PostTables, profiles, crops, expansion>>

Names ==
    {NoParam, QueryParam(<<>>), QueryParam(<<" ">>), QueryParam(<<"A">>),
     QueryParam(<<"B", " ">>), QueryParam(<<"Z">>)}

AlertPayloads ==
    {AlertData(scope, department_name, category_name) :
        scope \in {Absent, GLOBAL, DEPARTAMENTAL},
        department_name \in Names,
        category_name \in {NoParam, QueryParam(<<"c">>), QueryParam(<<"x">>)}}

ProfileRows ==
    {NoProfile, Profile(NULL)}
    \cup {Profile(m) : m \in DOMAIN MunicipalityDepartment}

InitAlerts == EmptyInit([Users -> ProfileRows])

AlertCreate ==
    \E c \in Callers, data \in AlertPayloads : Alert_create(c, data)

SpecAlerts == InitAlerts /\ [][AlertCreate]_vars

\* ======================================================================
\* Crops
\* A field of a request body: given with its value, or not given.
Given(value) == [given |-> TRUE, value |-> value]

NotGiven == [given |-> FALSE, value |-> 0]

CropFields == {"start_date", "harvest_date", "area", "production_qty"}

\* Variant: every stored crop is returned to every authenticated caller.
Crop_get_queryset_all(caller) ==
    IF ~is_authenticated(caller) THEN {}
    ELSE {c \in CropIds : crops[c] # NoCrop}

\* CropViewSet.get_queryset: the caller's own crops.
Crop_get_queryset(caller) ==
    IF ~is_authenticated(caller) THEN {}
    ELSE {c \in CropIds : crops[c] # NoCrop /\ crops[c].user_id = caller}

\* IsAuthenticated, get_object() over the caller's crops, then IsOwner on
\* the crop found.
CropLookup(caller, c) ==
    IF ~is_authenticated(caller) THEN HTTP_403_FORBIDDEN
    ELSE IF c \notin Crop_get_queryset(caller) THEN HTTP_404_NOT_FOUND
    ELSE IF crops[c].user_id # caller THEN HTTP_403_FORBIDDEN
    ELSE HTTP_200_OK

Crop_list(caller) == Crop_get_queryset(caller)

Crop_retrieve_response(caller, c) == CropLookup(caller, c)

\* The keys of the validation errors of a request body: the required
\* fields a full body lacks, else what CropSerializer.validate reports.  It
\* reads the body alone, never the stored crop.
CropSerializer_validate(data, partial) ==
    LET missing == {f \in CropFields : ~data[f].given}
    IN  IF ~partial /\ missing # {} THEN missing
        ELSE (IF /\ data.start_date.given /\ data.harvest_date.given
                 /\ data.harvest_date.value < data.start_date.value
              THEN {"harvest_date"} ELSE {})
             \cup (IF ~data.area.given \/ data.area.value <= 0
                   THEN {"area"} ELSE {})
             \cup (IF ~data.production_qty.given
                   THEN (IF partial THEN {} ELSE {"production_qty"})
                   ELSE IF data.production_qty.value < 0
                   THEN {"production_qty"} ELSE {})

\* What is remembered of a crop request that wrote.
CropResponse(op, caller, c, code) ==
    [NoRequest EXCEPT !.op = op, !.caller = caller, !.pid = c, !.code = code]

\* The crop request stores table as the crop table.
CropCommit(op, caller, c, table, code) ==
    /\ nwrites' = nwrites + 1
    /\ crops' = table
    /\ last' = CropResponse(op, caller, c, code)
    /\ UNCHANGED <<posts, now, hist, inflight, categories, feed, images,
                   alerts, profiles, expansion>>

Crop_create_response(caller, data) ==
    IF ~is_authenticated(caller) THEN HTTP_403_FORBIDDEN
    ELSE IF CropSerializer_validate(data, FALSE) # {} THEN HTTP_400_BAD_REQUEST
    ELSE HTTP_201_CREATED

\* POST crops: the crop is stored with the caller as its user.
Crop_create(caller, data) ==
    /\ \E c \in CropIds : crops[c] = NoCrop
    /\ IF Crop_create_response(caller, data) # HTTP_201_CREATED THEN Refuse
       ELSE LET id == CHOOSE c \in CropIds :
                        /\ crops[c] = NoCrop
                        /\ \A b \in 1..(c - 1) : crops[b] # NoCrop
                row == [user_id |-> caller] @@
                       [f \in CropFields |-> data[f].value]
            IN  CropCommit("crop_create", caller, id,
                           [crops EXCEPT ![id] = row], HTTP_201_CREATED)

Crop_update_response(caller, c, data, partial) ==
    IF CropLookup(caller, c) # HTTP_200_OK THEN CropLookup(caller, c)
    ELSE IF CropSerializer_validate(data, partial) # {}
    THEN HTTP_400_BAD_REQUEST
    ELSE HTTP_200_OK

\* PUT (partial = FALSE) or PATCH (partial = TRUE) crops/{id}: the fields
\* given are set on the crop, which is saved.
Crop_update(caller, c, data, partial) ==
    IF Crop_update_response(caller, c, data, partial) # HTTP_200_OK THEN Refuse
    ELSE LET row == [f \in DOMAIN crops[c] |->
                        IF f \in CropFields /\ data[f].given
                        THEN data[f].value ELSE crops[c][f]]
         IN  CropCommit(IF partial THEN "crop_partial_update"
                        ELSE "crop_update",
                        caller, c, [crops EXCEPT ![c] = row], HTTP_200_OK)

Crop_destroy_response(caller, c) ==
    IF CropLookup(caller, c) # HTTP_200_OK THEN CropLookup(caller, c)
    ELSE HTTP_204_NO_CONTENT

\* DELETE crops/{id}: the row is removed.
Crop_destroy(caller, c) ==
    IF Crop_destroy_response(caller, c) # HTTP_204_NO_CONTENT THEN Refuse
    ELSE CropCommit("crop_destroy", caller, c,
                    [crops EXCEPT ![c] = NoCrop], HTTP_204_NO_CONTENT)

CropValues ==
    [start_date |-> {1, 2}, harvest_date |-> {1, 2}, area |-> {0, 1, 2},
     production_qty |-> {0 - 1, 0, 1}]

CropPayloads ==
    {data \in [CropFields -> [given : BOOLEAN, value : 0 - 1 .. 2]] :
        \A f \in CropFields :
            IF data[f].given THEN data[f].value \in CropValues[f]
            ELSE data[f] = NotGiven}

CropCreate ==
    /\ nwrites < MaxOwnerWrites
    /\ \E caller \in Callers, data \in CropPayloads : Crop_create(caller, data)

CropUpdate ==
    /\ nwrites < MaxOwnerWrites
    /\ \E caller \in Callers, c \in CropIds, data \in CropPayloads,
          partial \in BOOLEAN :
        Crop_update(caller, c, data, partial)

CropDestroy ==
    /\ nwrites < MaxOwnerWrites
    /\ \E caller \in Callers, c \in CropIds : Crop_destroy(caller, c)

NextCrops == CropCreate \/ CropUpdate \/ CropDestroy

InitCrops == EmptyInit({NoProfiles})

SpecCrops == InitCrops /\ [][NextCrops]_vars

\* ======================================================================
\* Properties
\* ======================================================================
IsClientError(code) == code >= 400 /\ code < 500

\* The step is a write by operation op on post p.
Wrote(op, p) == nwrites' # nwrites /\ last'.op = op /\ last'.pid = p

\* C1: a post created through the owner gateway is stored with status
\* pending_review and no published_at when its creator is neither a moderator
\* nor staff, and with status active and a published_at when the creator is
\* a moderator or staff.
C1_InitialStatusByRole ==
    last.op = "create" =>
        LET post == posts[last.pid]
        IN  IF is_privileged(last.caller)
            THEN post.status = ACTIVE /\ post.published_at # NULL
            ELSE post.status = PENDING_REVIEW /\ post.published_at = NULL

\* C2: a post created through the owner gateway by a plain user is not in the
\* public feed as long as no moderation request has written to it.
C2_UnmoderatedPostNotInFeed ==
    \A p \in PostIds :
        (Exists(p) /\ hist[p].api /\ ~is_privileged(posts[p].user) /\ ~hist[p].modOp)
            => p \notin PostFeed_get_queryset

\* C3: in every state the public feed holds exactly the posts that are
\* active, public and not expired (no expiry, or an expiry later than now),
\* and these are exactly the posts whose is_available property is true.
C3_FeedIsAvailablePosts ==
    /\ PostFeed_get_queryset = {p \in PostIds : Exists(p) /\ is_available(posts[p])}
    /\ \A p \in PostIds :
        Exists(p) =>
            (p \in PostFeed_get_queryset <=>
                /\ posts[p].status = ACTIVE
                /\ posts[p].visibility = PUBLIC
                /\ ~(posts[p].expires_at # NULL /\ posts[p].expires_at <= now))

\* A post in the feed next to an active public post that expires now.
C3_Witness ==
    \E p, q \in PostIds :
        /\ Exists(p) /\ Exists(q)
        /\ p \in PostFeed_get_queryset
        /\ posts[q].status = ACTIVE /\ posts[q].visibility = PUBLIC
        /\ posts[q].expires_at = now
        /\ q \notin PostFeed_get_queryset

\* The transitions of the status state machine.
StatusEdges ==
    {<<PENDING_REVIEW, APPROVED>>, <<PENDING_REVIEW, REJECTED>>,
     <<APPROVED, ACTIVE>>, <<ACTIVE, SOLD>>, <<ACTIVE, PAUSED>>,
     <<ACTIVE, EXPIRED>>, <<PAUSED, ACTIVE>>}

\* C4: every change of a post's stored status by approve, reject, activate,
\* the moderation update, mark_as_sold or pause_listing follows an edge of
\* the state machine; a rejected, sold or expired post keeps its status.
C4_StatusFollowsEdges ==
    [][\A p \in PostIds :
        (/\ Exists(p)
         /\ posts'[p].status # posts[p].status
         /\ last'.op \in {"approve", "reject", "activate", "moderation_update",
                          "mark_as_sold", "pause_listing"})
            => <<posts[p].status, posts'[p].status>> \in StatusEdges]_vars

C6_ActiveHasPublishedAt ==
    \A p \in PostIds :
        (Exists(p) /\ posts[p].status = ACTIVE) => posts[p].published_at # NULL

\* C7: the owner's mark_as_sold is answered 200 exactly when the post is
\* active, and then stores status sold and changes no other column; for any
\* other status it is answered with a client error and writes nothing.
C7_MarkAsSoldOnlyFromActive ==
    /\ [](\A p \in PostIds :
            Exists(p) =>
                LET code == mark_as_sold_response(posts[p].user, p)
                IN  IF posts[p].status = ACTIVE THEN code = HTTP_200_OK
                    ELSE IsClientError(code))
    /\ [][\A p \in PostIds :
            Wrote("mark_as_sold", p) =>
                /\ posts[p].status = ACTIVE
                /\ posts' = [posts EXCEPT ![p].status = SOLD]]_vars

\* An active post was marked as sold at a later time than its last full save.
C7_Witness ==
    /\ last.op = "mark_as_sold" /\ last.code = HTTP_200_OK
    /\ last.pre = ACTIVE
    /\ posts[last.pid].status = SOLD
    /\ now > posts[last.pid].updated_at

\* C8: a moderator's activate is answered 200 exactly when the post is
\* approved, and then stores status active (stamping published_at when it is
\* null); for any other status it is answered with a client error and
\* writes nothing.
C8_ActivateOnlyFromApproved ==
    /\ [](\A p \in PostIds, c \in Moderators \cup Staff :
            Exists(p) =>
                LET code == activate_response(c, p)
                IN  IF posts[p].status = APPROVED THEN code = HTTP_200_OK
                    ELSE IsClientError(code))
    /\ [][\A p \in PostIds :
            Wrote("activate", p) =>
                /\ posts[p].status = APPROVED
                /\ posts'[p].status = ACTIVE
                /\ posts' = [posts EXCEPT
                               ![p].status = ACTIVE,
                               ![p].published_at = IF @ = NULL THEN now ELSE @]]_vars

\* An approved post was activated and published at a later time than its
\* last full save.
C8_Witness ==
    /\ last.op = "activate" /\ last.code = HTTP_200_OK
    /\ last.pre = APPROVED
    /\ posts[last.pid].status = ACTIVE
    /\ posts[last.pid].published_at = now
    /\ now > posts[last.pid].updated_at

\* C9: the owner's pause_listing is answered 200 exactly when the post is
\* active or paused; it stores paused for an active post and active for a
\* paused one, changing no other column, so a second call right after the
\* first restores the status; for any other status it is answered with a
\* client error and writes nothing.
C9_PauseListingToggles ==
    /\ [](\A p \in PostIds :
            Exists(p) =>
                LET code == pause_listing_response(posts[p].user, p)
                IN  IF posts[p].status \in {ACTIVE, PAUSED} THEN code = HTTP_200_OK
                    ELSE IsClientError(code))
    /\ []((last.op = "pause_listing" /\ last.before # NoStatus)
            => posts[last.pid].status = last.before)
    /\ [][\A p \in PostIds :
            Wrote("pause_listing", p) =>
                /\ posts[p].status \in {ACTIVE, PAUSED}
                /\ posts' = [posts EXCEPT
                               ![p].status = IF @ = ACTIVE THEN PAUSED ELSE ACTIVE]]_vars

\* Two pause_listing calls in a row: active, paused, active again.
C9_Witness ==
    /\ last.op = "pause_listing" /\ last.code = HTTP_200_OK
    /\ last.before = ACTIVE /\ last.pre = PAUSED
    /\ posts[last.pid].status = ACTIVE

\* C10: the owner's delete of any of their posts is answered 204; the row
\* stays, its visibility is private and no other column changes; the owner
\* still gets the post from retrieve and from the listing, and the public
\* feed does not return it.
C10_SoftDelete ==
    /\ [](\A p \in PostIds :
            Exists(p) => destroy_response(posts[p].user, p) = HTTP_204_NO_CONTENT)
    /\ [][\A p \in PostIds :
            Wrote("destroy", p) =>
                /\ posts' = [posts EXCEPT ![p].visibility = PRIVATE]
                /\ Exists(p)'
                /\ (UserPost_retrieve_response(posts[p].user, p) = HTTP_200_OK)'
                /\ (p \in UserPost_get_queryset(posts[p].user))'
                /\ (p \notin PostFeed_get_queryset)']_vars

\* An active, unexpired post was deleted by its owner at a later time than
\* its last full save.
C10_Witness ==
    /\ last.op = "destroy" /\ last.code = HTTP_204_NO_CONTENT
    /\ posts[last.pid].status = ACTIVE
    /\ posts[last.pid].visibility = PRIVATE
    /\ posts[last.pid].expires_at = NULL
    /\ now > posts[last.pid].updated_at
    /\ last.pid \in UserPost_get_queryset(last.caller)

\* C11: the owner's toggle_visibility stores private for a public post and
\* public for a private one and changes no other column; whatever visibility
\* the post held (public, private or unlisted), a second call right after
\* the first restores it.
C11_ToggleVisibilityInvolution ==
    /\ []((last.op = "toggle_visibility" /\ last.vbefore # NoStatus)
            => posts[last.pid].visibility = last.vbefore)
    /\ [][\A p \in PostIds :
            Wrote("toggle_visibility", p) =>
                /\ posts[p].visibility = PUBLIC => posts'[p].visibility = PRIVATE
                /\ posts[p].visibility = PRIVATE => posts'[p].visibility = PUBLIC
                /\ posts' = [posts EXCEPT ![p].visibility = posts'[p].visibility]]_vars

\* C12: in every state the owner listing of an authenticated caller holds
\* exactly the posts the caller owns, whatever their status or visibility
\* (pending, rejected, private, soft-deleted), and never a post of another
\* user; an unauthenticated caller gets no posts.
C12_OwnerListingIsOwnPosts ==
    /\ \A c \in Users, p \in PostIds :
        p \in UserPost_list(c) <=> (Exists(p) /\ posts[p].user = c)
    /\ \A c \in Users, s \in StatusChoices, v \in VisibilityChoices :
        \A p \in PostIds :
            (Exists(p) /\ posts[p].user = c /\ posts[p].status = s
             /\ posts[p].visibility = v) => p \in UserPost_list(c)
    /\ UserPost_list(Anonymous) = {}

\* A rejected post its owner has soft-deleted, next to a post of another
\* user: each of the two owners is listed their own post alone.
C12_Witness ==
    \E p, q \in PostIds :
        /\ Exists(p) /\ Exists(q)
        /\ last.op = "destroy" /\ last.pid = p
        /\ posts[p].status = REJECTED /\ posts[p].visibility = PRIVATE
        /\ posts[q].user # posts[p].user
        /\ UserPost_list(posts[p].user) = {p}
        /\ UserPost_list(posts[q].user) = {q}

\* The operations of the owner gateway that write to an existing post.
OwnerWriteOps ==
    {"update", "destroy", "toggle_visibility", "mark_as_sold", "pause_listing"}

ModerationWriteOps == {"approve", "reject", "activate", "moderation_update"}

\* C14: for a caller who is neither in the moderators group nor staff, the
\* moderation list, retrieve, pending_review, update, partial update,
\* approve, reject and activate are answered 403 whether or not the post
\* exists, return no post and write nothing; for a moderator or staff caller
\* the moderation list holds every stored post, whatever its owner, status
\* or visibility.
C14_ModerationGatedOnPrivilege ==
    /\ [](\A c \in Callers :
            ~is_privileged(c) =>
                /\ Moderation_list_response(c) = HTTP_403_FORBIDDEN
                /\ Moderation_list(c) = {}
                /\ pending_review(c) = {}
                /\ \A p \in PostIds :
                    /\ Moderation_retrieve_response(c, p) = HTTP_403_FORBIDDEN
                    /\ moderation_update_response(c, p) = HTTP_403_FORBIDDEN
                    /\ approve_response(c, p) = HTTP_403_FORBIDDEN
                    /\ reject_response(c, p) = HTTP_403_FORBIDDEN
                    /\ activate_response(c, p) = HTTP_403_FORBIDDEN)
    /\ [](\A c \in Callers :
            is_privileged(c) =>
                /\ Moderation_list_response(c) = HTTP_200_OK
                /\ Moderation_list(c) = {p \in PostIds : Exists(p)}
                /\ pending_review(c) =
                    {p \in PostIds : Exists(p) /\ posts[p].status = PENDING_REVIEW})
    /\ [][(nwrites' # nwrites /\ last'.op \in ModerationWriteOps)
            => is_privileged(last'.caller)]_vars

\* A rejected private post of a plain user next to a post a staff user has
\* just created: the moderator is listed both, the plain user is refused,
\* also for a post id that is not stored.
C14_Witness ==
    \E p \in PostIds :
        /\ Exists(p) /\ posts[p].user = "alice"
        /\ posts[p].status = REJECTED /\ posts[p].visibility = PRIVATE
        /\ last.op = "create" /\ last.caller = "staff" /\ last.pid # p
        /\ Moderation_list("mod") = {p, last.pid}
        /\ Moderation_list("alice") = {}
        /\ approve_response("alice", p) = HTTP_403_FORBIDDEN

\* C15: whatever the interleaving of detail requests of the feed with each
\* other and with owner and moderator writes, every detail request adds
\* exactly 1 to the stored view_count, and once no request is in flight the
\* stored view_count of a post is its initial value (0) plus the number of
\* detail requests answered for it.
C15_ViewCountNeverLost ==
    /\ [](BagCardinality(inflight) = 0 =>
            \A p \in PostIds : Exists(p) => posts[p].view_count = hist[p].views)
    /\ [][\A p \in PostIds :
            Wrote("retrieve", p) =>
                posts' = [posts EXCEPT ![p].view_count = @ + 1]]_vars

\* C16: whatever the interleaving of two transition requests on the same
\* post, at the moment a transition writes the stored status satisfies its
\* precondition: mark_as_sold overwrites active only, activate approved
\* only, pause_listing active or paused only.
C16_PreconditionHoldsAtWrite ==
    [][\A p \in PostIds :
        /\ Wrote("mark_as_sold", p) => posts[p].status = ACTIVE
        /\ Wrote("activate", p) => posts[p].status = APPROVED
        /\ Wrote("pause_listing", p) => posts[p].status \in {ACTIVE, PAUSED}]_vars

\* The categories reachable from the categories in found along
\* parent-to-child edges through active children, in at most steps edges.
RECURSIVE ActiveDescendants(_, _)
ActiveDescendants(found, steps) ==
    IF steps = 0 THEN found
    ELSE ActiveDescendants(
            found \cup {c \in CategoryIds :
                          /\ categories[c].is_active
                          /\ categories[c].parent # NULL
                          /\ categories[c].parent \in found},
            steps - 1)

\* The category a feed request asks for, when its parameter is the id of a
\* stored category; NULL otherwise.
RequestedCategory ==
    IF feed.category.given /\ int(feed.category.raw).ok
       /\ int(feed.category.raw).value \in CategoryIds
    THEN int(feed.category.raw).value ELSE NULL

\* C17: for a category table that is a forest and a request for the stored
\* category X, the ids the feed filters on are, each once, X and the
\* categories reachable from X through active children only, and the feed
\* returns exactly the active, public, unexpired posts whose category is one
\* of them.
C17_CategoryFilterIsActiveSubtree ==
    RequestedCategory # NULL =>
        LET expected == ActiveDescendants({RequestedCategory}, MaxCategories)
            ids == feed.response.category_ids
        IN  /\ {ids[i] : i \in 1..Len(ids)} = expected
            /\ Len(ids) = Cardinality(expected)
            /\ feed.response.code = HTTP_200_OK
            /\ feed.response.posts =
                {p \in PostIds :
                    /\ is_available(posts[p])
                    /\ posts[p].category \in expected}

\* The feed was asked for a category with an active child holding a post,
\* which it returned, and an inactive child holding an active post, which it
\* did not return.
C17_Witness ==
    \E a, b \in CategoryIds, p, q \in PostIds :
        /\ RequestedCategory # NULL
        /\ categories[a].parent = RequestedCategory /\ categories[a].is_active
        /\ categories[b].parent = RequestedCategory /\ ~categories[b].is_active
        /\ posts[p].category = a /\ p \in feed.response.posts
        /\ posts[q].category = b /\ is_available(posts[q])
        /\ q \notin feed.response.posts

\* The feed request asks for an integer id that no stored category has.
RequestedMissingCategory ==
    /\ feed.category.given
    /\ int(feed.category.raw).ok
    /\ int(feed.category.raw).value \notin CategoryIds

\* C18 as stated: for a requested category id that no stored category has,
\* the feed filters on the empty list of ids and returns no post.
C18_MissingCategoryExpandsToNothing ==
    RequestedMissingCategory =>
        /\ feed.response.category_ids = <<>>
        /\ feed.response.code = HTTP_200_OK
        /\ feed.response.posts = {}

\* C18, amended: for a requested category id that no stored category has,
\* the feed filters on that id alone, which no post carries, and returns no
\* post; the filter is never ignored.
C18_MissingCategoryGivesNoPosts ==
    RequestedMissingCategory =>
        /\ feed.response.category_ids = <<int(feed.category.raw).value>>
        /\ feed.response.code = HTTP_200_OK
        /\ feed.response.posts = {}

\* The feed holds posts with and without a category, and was asked for an
\* id above every stored one: it returned none of them.
C18_Witness ==
    /\ RequestedMissingCategory
    /\ int(feed.category.raw).value = MissingCategoryId
    /\ \E p, q \in PostFeed_get_queryset :
        posts[p].category = NULL /\ posts[q].category # NULL
    /\ feed.response.posts = {}

\* The text of a given parameter is not a decimal number, or is a negative one.
NotANumberOrNegative(param) ==
    /\ param.given
    /\ \/ Decimal(param.raw).kind # "number"
       \/ Decimal(param.raw).value < 0

\* The returned post's price is within a given bound.
AtLeast(p, param) == param.given => posts[p].price >= Decimal(param.raw).value

AtMost(p, param) == param.given => posts[p].price <= Decimal(param.raw).value

\* C19: a min_price that is negative or not a decimal number is answered 400
\* with a validation error keyed min_price, and likewise a max_price with an
\* error keyed max_price; no request is answered with a server error; when
\* neither value is refused, the answer is 200 and every returned post has
\* min_price <= price <= max_price, both bounds included.
C19_PriceBoundsValidated ==
    LET lo == feed.min_price
        hi == feed.max_price
        response == feed.response
    IN  /\ response.code # HTTP_500_INTERNAL_SERVER_ERROR
        /\ NotANumberOrNegative(lo) =>
            response.code = HTTP_400_BAD_REQUEST /\ response.errors = {"min_price"}
        /\ (~NotANumberOrNegative(lo) /\ NotANumberOrNegative(hi)) =>
            response.code = HTTP_400_BAD_REQUEST /\ response.errors = {"max_price"}
        /\ (response.code # 0 /\ ~NotANumberOrNegative(lo)
            /\ ~NotANumberOrNegative(hi)) =>
            /\ response.code = HTTP_200_OK
            /\ \A p \in response.posts : AtLeast(p, lo) /\ AtMost(p, hi)

\* ----------------------------------------------------------------------
\* Every file of a non-empty batch was refused by the storage backend.
AllFailed(files) == files # <<>> /\ \A i \in DOMAIN files : ~files[i]

\* C20: post creation never leaves an orphaned or half-created post: when
\* the create request carried a non-empty batch of images and every image
\* failed to be stored, no post row and no image row of that creation is
\* stored.
C20_NoOrphanedPost ==
    \A p \in PostIds :
        AllFailed(hist[p].batch) => ~Exists(p) /\ images[p] = {}

\* ----------------------------------------------------------------------
\* The department of the municipality of the user's profile, NULL when the
\* user has no profile or the profile no municipality.
ProfileDepartment(u) ==
    IF profiles[u].exists /\ profiles[u].municipality # NULL
    THEN MunicipalityDepartment[profiles[u].municipality]
    ELSE NULL

Resolvable(name) ==
    /\ name.given
    /\ \E d \in DOMAIN DepartmentNames : DepartmentNames[d] = strip(name.raw)

C23_OnlyPrivilegedCreateAlerts ==
    \A a \in AlertIds :
        alerts[a] # NoAlert => is_privileged(alerts[a].created_by)

\* ----------------------------------------------------------------------
\* C24: for every authenticated caller the crop list returns only the
\* caller's crops (all of them); retrieve, update, partial update and delete
\* of a crop of another user are answered 404 or 403 and leave the crop
\* stored and unchanged: a stored crop changes only by a request of its
\* owner, and is removed only by its owner's delete.
C24_CropsScopedToOwner ==
    /\ [](\A u \in Users :
            /\ Crop_list(u) =
                  {c \in CropIds : crops[c] # NoCrop /\ crops[c].user_id = u}
            /\ \A c \in CropIds, data \in CropPayloads, partial \in BOOLEAN :
                  (crops[c] # NoCrop /\ crops[c].user_id # u) =>
                      /\ Crop_retrieve_response(u, c)
                            \in {HTTP_404_NOT_FOUND, HTTP_403_FORBIDDEN}
                      /\ Crop_update_response(u, c, data, partial)
                            \in {HTTP_404_NOT_FOUND, HTTP_403_FORBIDDEN}
                      /\ Crop_destroy_response(u, c)
                            \in {HTTP_404_NOT_FOUND, HTTP_403_FORBIDDEN})
    /\ [][\A c \in CropIds :
            (crops[c] # NoCrop /\ crops'[c] # crops[c]) =>
                /\ last'.caller = crops[c].user_id
                /\ last'.pid = c
                /\ crops'[c] = NoCrop => last'.op = "crop_destroy"]_vars

\* A crop of alice is stored next to a crop mod has just created: each is
\* listed to its owner alone.
C24_Witness ==
    \E c, d \in CropIds :
        /\ crops[c] # NoCrop /\ crops[c].user_id = "alice"
        /\ crops[d] # NoCrop /\ crops[d].user_id = "mod"
        /\ last.op = "crop_create" /\ last.caller = "mod" /\ last.pid = d
        /\ Crop_list("alice") = {c} /\ Crop_list("mod") = {d}

\* ----------------------------------------------------------------------
\* C26: after any sequence of create, full update and partial update
\* requests of the crop gateway, every stored crop has harvest_date >=
\* start_date, area > 0 and production_qty >= 0.
C26_StoredCropIsValid ==
    \A c \in CropIds :
        crops[c] # NoCrop =>
            /\ crops[c].harvest_date >= crops[c].start_date
            /\ crops[c].area > 0
            /\ crops[c].production_qty >= 0

\* ----------------------------------------------------------------------
\* C25: a moderation update by a moderator or staff user that changes the
\* post's status stores the caller as reviewed_by and the current time as
\* reviewed_at, and stores a published_at when the new status is active and
\* the post had none; the status, visibility, is_featured and review_notes
\* submitted are stored as given.
C25_ModerationUpdateStamps ==
    /\ [](\A p \in PostIds, c \in Moderators \cup Staff,
             data \in ModerationPayloads :
            Exists(p) =>
                LET row == PostModerationSerializer_update(posts[p], c, data)
                IN  /\ data.status # Absent => row.status = data.status
                    /\ data.visibility # Absent
                          => row.visibility = data.visibility
                    /\ data.is_featured # Absent
                          => row.is_featured = (data.is_featured = "true")
                    /\ data.review_notes # Absent
                          => row.review_notes = data.review_notes
                    /\ (data.status # Absent /\ data.status # posts[p].status)
                          => /\ row.reviewed_by = c
                             /\ row.reviewed_at = now
                             /\ (data.status = ACTIVE
                                 /\ posts[p].published_at = NULL)
                                   => row.published_at = now)
    /\ [][\A p \in PostIds :
            (Wrote("moderation_update", p)
             /\ posts'[p].status # posts[p].status) =>
                /\ posts'[p].reviewed_by = last'.caller
                /\ is_privileged(last'.caller)
                /\ posts'[p].reviewed_at = now
                /\ (posts'[p].status = ACTIVE /\ posts[p].published_at = NULL)
                      => posts'[p].published_at = now]_vars

\* A moderator has just set a pending post without published_at to active,
\* featured, with a note: the post carries the moderator, the time of the
\* request and a published_at.
C25_Witness ==
    /\ last.op = "moderation_update" /\ last.caller = "mod"
    /\ last.pre = PENDING_REVIEW
    /\ posts[last.pid].status = ACTIVE
    /\ posts[last.pid].published_at = now
    /\ posts[last.pid].reviewed_by = "mod"
    /\ posts[last.pid].reviewed_at = now
    /\ posts[last.pid].is_featured
    /\ posts[last.pid].review_notes = "note"

\* ----------------------------------------------------------------------
\* The columns the moderation gateway or nobody writes.
ModerationColumns ==
    {"is_featured", "review_notes", "reviewed_by", "reviewed_at", "user",
     "slug"}

\* The status changes an owner can cause.
OwnerEdges == {<<ACTIVE, SOLD>>, <<ACTIVE, PAUSED>>, <<PAUSED, ACTIVE>>}

\* C27: no operation of the owner gateway on a stored post (update, partial
\* update, toggle_visibility, mark_as_sold, pause_listing, delete) changes
\* its is_featured, review_notes, reviewed_by, reviewed_at, owner or slug,
\* and the only status changes it makes are active -> sold, active ->
\* paused and paused -> active.
C27_OwnerWritesOwnColumns ==
    [][\A p \in PostIds :
        (Exists(p) /\ nwrites' # nwrites /\ last'.pid = p
         /\ last'.op \in OwnerWriteOps) =>
            /\ \A f \in ModerationColumns : posts'[p][f] = posts[p][f]
            /\ posts'[p].status # posts[p].status
                  => <<posts[p].status, posts'[p].status>> \in OwnerEdges]_vars


\* C29: for every table of stored categories and every parent links the
\* parent column can hold (a category that is its own parent and cycles of
\* active categories included), the category-descendant expansion, once
\* entered, ends and returns its list of ids.
C29_ExpansionTerminates ==
    expansion.started ~> (expansion.started /\ expansion.to_visit = <<>>)


\* C30: a moderation update that leaves the post's status as it was (it
\* changes visibility, is_featured or review_notes only, or submits the
\* status the post already has) leaves the stored reviewed_by and
\* reviewed_at as they were.
C30_ReviewerChangesOnlyWithStatus ==
    [][\A p \in PostIds :
        (Wrote("moderation_update", p) /\ posts'[p].status = posts[p].status) =>
            /\ posts'[p].reviewed_by = posts[p].reviewed_by
            /\ posts'[p].reviewed_at = posts[p].reviewed_at]_vars


\* C28: the stored view_count of a post never decreases, and it changes only
\* by a detail request of the feed for that post; a detail request for a
\* post that is not in the feed (not active, not public, or expired) is
\* answered 404, and no write of the owner or of a moderator changes
\* view_count.
C28_ViewCountMonotone ==
    /\ [](\A p \in PostIds :
            (Exists(p) /\ (\/ posts[p].status # ACTIVE
                           \/ posts[p].visibility # PUBLIC
                           \/ (posts[p].expires_at # NULL
                               /\ posts[p].expires_at <= now)))
                => FeedRetrieve_response(p) = HTTP_404_NOT_FOUND)
    /\ [][\A p \in PostIds :
            Exists(p) =>
                /\ posts'[p].view_count >= posts[p].view_count
                /\ posts'[p].view_count # posts[p].view_count
                      => Wrote("retrieve", p)]_vars

====
